---- MODULE Spec2Model ----
(***************************************************************************)
(* Model of the line-range file editor replace_lines of server.py, and of  *)
(* the two tools that move the working directory, cd and clone_repo.       *)
(*                                                                         *)
(* Text is a sequence of one-character strings; a line is such a sequence  *)
(* that keeps its own terminator.  The file is one stored text plus the    *)
(* condition the operating system reports when it is opened.  A call is    *)
(* split at its system calls: the read, validation, splice and diff are    *)
(* one step; the overwrite is the open for writing (which truncates), one  *)
(* write per line, and the close.                                          *)
(*                                                                         *)
(* Scope: the stored text uses "\n" terminators only, so the translation   *)
(* of "\r" and "\r\n" done by text-mode reading is not exercised.          *)
(*                                                                         *)
(* The process has one working directory.  A path is a text; the directory *)
(* tree is the set of the canonical paths of the directories that exist,   *)
(* without symbolic links.  WORKDIR is canonical and exists.  cd and       *)
(* clone_repo are one step each: no other call runs in between.            *)
(*                                                                         *)
(* Three specifications share the variables: Spec is one replace_lines     *)
(* call, SpecSeq a sequence of them on one file, SpecCwd a sequence of cd  *)
(* and clone_repo calls.  Each leaves the variables of the others fixed.   *)
(***************************************************************************)
EXTENDS Integers, Sequences, FiniteSets, TLC

VARIABLES
    disk,            \* stored content of the file at file_path
    fileKind,        \* what opening the file meets: see FileKinds
    pc,              \* position of the call: "idle", "opening", "writing", "done"
    request,         \* arguments of the call in progress
    disk0,           \* stored content when the call started
    original_lines,  \* local: f.readlines()
    modified_lines,  \* local: the spliced copy
    diff_output,     \* local: text of the diff field
    written,         \* number of lines of modified_lines handed to the file
    result,          \* returned dict; NoResult until the call returns
    cwd,             \* os.getcwd(): the working directory of the process
    dirs,            \* the directories that exist
    fsCall,          \* the last cd or clone_repo call: arguments, what it met
    fsResult,        \* the dict that call returned
    cwd0,            \* working directory when that call started
    dirs0,           \* the directories that existed when that call started
    expected,        \* SpecSeq: the committed edits applied in call order
    calls            \* SpecSeq: number of calls started

fileVars == <<disk, fileKind, pc, request, disk0, original_lines, modified_lines,
              diff_output, written, result>>
dirVars == <<cwd, dirs, fsCall, fsResult, cwd0, dirs0>>
seqVars == <<expected, calls>>
vars == <<fileVars, dirVars, seqVars>>

\* ------------------------------------------------------------------ bounds
MaxLines == 3
MaxNewLen == 2
\* SpecSeq: lines of the file at start, length of new_content, calls made
MaxSeqLines == 1
MaxSeqNewLen == 1
MaxCalls == 2

\* --------------------------------------------------------------- alphabet
NL == "\n"
None == <<>>          \* an absent Optional[int]; a present one is <<n>>
NoResult == [pending |-> TRUE]
NoRequest == [pending |-> TRUE]

LineBodies == {<<"a">>, <<"b">>}
NewChars == {"b", NL}
FileKinds == {"text", "missing", "noperm", "nonutf8"}

SeqsUpTo(S, n) == UNION {[1..k -> S] : k \in 0..n}

\* ''.join(lines)
RECURSIVE Join(_)
Join(lines) ==
    IF lines = <<>> THEN <<>> ELSE Head(lines) \o Join(Tail(lines))

\* index of the first "\n" of s, 0 when there is none
FirstNL(s) ==
    IF \E i \in 1..Len(s) : s[i] = NL
    THEN CHOOSE i \in 1..Len(s) : s[i] = NL /\ \A j \in 1..(i-1) : s[j] # NL
    ELSE 0

EndsWithNL(s) == Len(s) > 0 /\ s[Len(s)] = NL

\* f.readlines(): the lines of the text, each with its terminator, the last
\* one bare when the text does not end with "\n"
RECURSIVE readlines(_)
first_line(s, i) ==
    IF i = 0 THEN <<s>>
    ELSE <<SubSeq(s, 1, i)>> \o readlines(SubSeq(s, i + 1, Len(s)))

readlines(s) == IF s = <<>> THEN <<>> ELSE first_line(s, FirstNL(s))

\* new_content.split('\n'): the fragments between terminators, never empty
RECURSIVE split(_)
first_fragment(s, i) ==
    IF i = 0 THEN <<s>>
    ELSE <<SubSeq(s, 1, i - 1)>> \o split(SubSeq(s, i + 1, Len(s)))

split(s) == first_fragment(s, FirstNL(s))

\* lines 641-644: every fragment but the last gets "\n"; the last fragment
\* gets one more when new_content ends with "\n"
terminate(parts, last_too) ==
    [i \in 1..Len(parts) |->
        IF i < Len(parts) \/ last_too THEN parts[i] \o <<NL>> ELSE parts[i]]

new_lines(new_content) == terminate(split(new_content), EndsWithNL(new_content))

\* lines 664-665: modified_lines[start_idx:end_idx] = new_lines
Splice(lines, start_idx, end_idx, ins) ==
    SubSeq(lines, 1, start_idx) \o ins \o SubSeq(lines, end_idx + 1, Len(lines))

\* ------------------------------------------------------- difflib (library)
\* Positions are 0-based and ranges half-open, as in difflib; a and b are
\* sequences of lines.  No element is junk: isjunk is None and the automatic
\* junk heuristic needs 200 elements.

\* SequenceMatcher.find_longest_match: the longest common block of
\* a[alo:ahi] and b[blo:bhi]; of the longest, the one starting earliest in a,
\* and of those the one starting earliest in b; <<alo, blo, 0>> when none
find_longest_match(a, b, alo, ahi, blo, bhi) ==
    LET blocks == {m \in (alo..(ahi-1)) \X (blo..(bhi-1)) \X (1..(ahi-alo)) :
                      /\ m[1] + m[3] <= ahi
                      /\ m[2] + m[3] <= bhi
                      /\ \A t \in 1..m[3] : a[m[1] + t] = b[m[2] + t]}
        better(m, o) == \/ m[3] > o[3]
                        \/ m[3] = o[3] /\ m[1] < o[1]
                        \/ m[3] = o[3] /\ m[1] = o[1] /\ m[2] < o[2]
    IN  IF blocks = {} THEN <<alo, blo, 0>>
        ELSE CHOOSE m \in blocks : \A o \in blocks \ {m} : better(m, o)

\* SequenceMatcher.get_matching_blocks without its final sentinel: the
\* longest block, then the blocks to its left and to its right.  Blocks found
\* this way are maximal, so the pass that merges adjacent blocks changes
\* nothing.
RECURSIVE matching_blocks(_, _, _, _, _, _)
blocks_around(a, b, alo, ahi, blo, bhi, i, j, k) ==
    IF k = 0 THEN <<>>
    ELSE (IF alo < i /\ blo < j
          THEN matching_blocks(a, b, alo, i, blo, j) ELSE <<>>)
         \o <<<<i, j, k>>>> \o
         (IF i + k < ahi /\ j + k < bhi
          THEN matching_blocks(a, b, i + k, ahi, j + k, bhi) ELSE <<>>)

block_split(a, b, alo, ahi, blo, bhi, m) ==
    blocks_around(a, b, alo, ahi, blo, bhi, m[1], m[2], m[3])

matching_blocks(a, b, alo, ahi, blo, bhi) ==
    block_split(a, b, alo, ahi, blo, bhi,
                find_longest_match(a, b, alo, ahi, blo, bhi))

get_matching_blocks(a, b) ==
    matching_blocks(a, b, 0, Len(a), 0, Len(b)) \o <<<<Len(a), Len(b), 0>>>>

\* SequenceMatcher.get_opcodes: <<tag, i1, i2, j1, j2>> turning a into b
change_tag(i, j, ai, bj) ==
    IF i < ai /\ j < bj THEN "replace"
    ELSE IF i < ai THEN "delete"
    ELSE IF j < bj THEN "insert"
    ELSE ""

change_opcode(tag, i, j, ai, bj) ==
    IF tag = "" THEN <<>> ELSE <<<<tag, i, ai, j, bj>>>>

equal_opcode(ai, bj, size) ==
    IF size > 0 THEN <<<<"equal", ai, ai + size, bj, bj + size>>>> ELSE <<>>

RECURSIVE opcodes_from(_, _, _)
opcodes_step(rest, i, j, ai, bj, size) ==
    change_opcode(change_tag(i, j, ai, bj), i, j, ai, bj)
    \o equal_opcode(ai, bj, size)
    \o opcodes_from(rest, ai + size, bj + size)

opcodes_from(blocks, i, j) ==
    IF blocks = <<>> THEN <<>>
    ELSE opcodes_step(Tail(blocks), i, j,
                      Head(blocks)[1], Head(blocks)[2], Head(blocks)[3])

get_opcodes(a, b) == opcodes_from(get_matching_blocks(a, b), 0, 0)

Max(x, y) == IF x > y THEN x ELSE y
Min(x, y) == IF x < y THEN x ELSE y

\* the loop of SequenceMatcher.get_grouped_opcodes: an equal run longer than
\* 2n closes the group after n lines and opens the next n lines before its end
\* an equal run cut to its first n lines, and to its last n lines
keep_first(c, n) == <<c[1], c[2], Min(c[3], c[2] + n), c[4], Min(c[5], c[4] + n)>>
keep_last(c, n) == <<c[1], Max(c[2], c[3] - n), c[3], Max(c[4], c[5] - n), c[5]>>

RECURSIVE split_groups(_, _, _)
split_step(c, rest, group, n) ==
    IF c[1] = "equal" /\ c[3] - c[2] > n + n
    THEN <<Append(group, keep_first(c, n))>>
         \o split_groups(rest, <<keep_last(c, n)>>, n)
    ELSE split_groups(rest, Append(group, c), n)

split_groups(codes, group, n) ==
    IF codes = <<>>
    THEN IF group # <<>> /\ ~(Len(group) = 1 /\ group[1][1] = "equal")
         THEN <<group>> ELSE <<>>
    ELSE split_step(Head(codes), Tail(codes), group, n)

\* SequenceMatcher.get_grouped_opcodes(n): the leading and the trailing equal
\* run keep n lines of context
codes_or_equal(raw) ==
    IF raw = <<>> THEN <<<<"equal", 0, 1, 0, 1>>>> ELSE raw

trim_first(codes, n) ==
    IF codes[1][1] = "equal"
    THEN <<keep_last(codes[1], n)>> \o Tail(codes)
    ELSE codes

trim_last(codes, n) ==
    IF codes[Len(codes)][1] = "equal"
    THEN SubSeq(codes, 1, Len(codes) - 1) \o <<keep_first(codes[Len(codes)], n)>>
    ELSE codes

get_grouped_opcodes(a, b, n) ==
    split_groups(trim_last(trim_first(codes_or_equal(get_opcodes(a, b)), n), n),
                 <<>>, n)

Digits == <<"0", "1", "2", "3", "4", "5", "6", "7", "8", "9">>

\* str(n) for a natural number
RECURSIVE str(_)
str(n) == IF n < 10 THEN <<Digits[n + 1]>> ELSE str(n \div 10) \o <<Digits[(n % 10) + 1]>>

\* difflib._format_range_unified
format_range_unified(start, stop) ==
    IF stop - start = 1 THEN str(start + 1)
    ELSE str(IF stop - start = 0 THEN start ELSE start + 1)
         \o <<",">> \o str(stop - start)

\* the lines one opcode contributes to a hunk
tagged_lines(tag, lines, lo, hi) ==
    [i \in 1..(hi - lo) |-> <<tag>> \o lines[lo + i]]

opcode_lines(a, b, c) ==
    IF c[1] = "equal" THEN tagged_lines(" ", a, c[2], c[3])
    ELSE (IF c[1] \in {"replace", "delete"}
          THEN tagged_lines("-", a, c[2], c[3]) ELSE <<>>)
         \o (IF c[1] \in {"replace", "insert"}
             THEN tagged_lines("+", b, c[4], c[5]) ELSE <<>>)

RECURSIVE group_lines(_, _, _)
group_lines(a, b, group) ==
    IF group = <<>> THEN <<>>
    ELSE opcode_lines(a, b, Head(group)) \o group_lines(a, b, Tail(group))

\* one hunk: "@@ -r1 +r2 @@" and its lines
hunk_header(first, last) ==
    <<"@", "@", " ", "-">> \o format_range_unified(first[2], last[3])
    \o <<" ", "+">> \o format_range_unified(first[4], last[5])
    \o <<" ", "@", "@">>

hunk(a, b, group) ==
    <<hunk_header(group[1], group[Len(group)])>> \o group_lines(a, b, group)

RECURSIVE hunks(_, _, _)
hunks(a, b, groups) ==
    IF groups = <<>> THEN <<>>
    ELSE hunk(a, b, Head(groups)) \o hunks(a, b, Tail(groups))

FromHeader == <<"--- file_path (before)">>
ToHeader == <<"+++ file_path (after)">>

\* difflib.unified_diff(a, b, fromfile, tofile, lineterm=''), n = 3: nothing
\* when no group differs, else the two file headers and the hunks
diff_of_groups(a, b, groups) ==
    IF groups = <<>> THEN <<>>
    ELSE <<FromHeader, ToHeader>> \o hunks(a, b, groups)

unified_diff(a, b) == diff_of_groups(a, b, get_grouped_opcodes(a, b, 3))

\* '\n'.join(lines)
RECURSIVE JoinNL(_)
JoinNL(lines) ==
    IF lines = <<>> THEN <<>>
    ELSE IF Len(lines) = 1 THEN lines[1]
    ELSE Head(lines) \o <<NL>> \o JoinNL(Tail(lines))

NoChanges == <<"No changes detected">>

\* lines 667-680: the diff field
strip_headers(diff_lines) ==
    IF Len(diff_lines) > 2
    THEN JoinNL(SubSeq(diff_lines, 3, Len(diff_lines)))
    ELSE NoChanges

DiffOutput(orig, modified) == strip_headers(unified_diff(orig, modified))

\* ------------------------------------------------------------ the inputs
TextFiles ==
    {Join(terminate(ls, last_too)) :
        ls \in SeqsUpTo(LineBodies, MaxLines), last_too \in BOOLEAN}

NewContents == SeqsUpTo(NewChars, MaxNewLen)
StartLines == 0..(MaxLines + 2)
EndLines == {None} \cup {<<n>> : n \in 0..(MaxLines + 1)}

Requests ==
    [start_line : StartLines, new_content : NewContents,
     end_line : EndLines, dry_run : BOOLEAN]

\* what the storage holds at start: a text file, no file, a file the process
\* may not read, or bytes that are not UTF-8
OpaqueContent == <<"?">>
InitialFiles ==
    {<<"text", d>> : d \in TextFiles}
    \cup {<<"missing", <<>>>>, <<"noperm", OpaqueContent>>, <<"nonutf8", OpaqueContent>>}

\* ---------------------------------------------------------- replace_lines
\* lines 628-629: what open(file_path, 'r') and readlines() raise
ReadError(kind) ==
    CASE kind = "missing" -> "FileNotFoundError"
      [] kind = "noperm" -> "PermissionError"
      [] kind = "nonutf8" -> "UnicodeDecodeError"
      [] OTHER -> ""

\* lines 702-707: the except clause
ExceptionResult(e) ==
    [success |-> FALSE, message |-> "Error processing file_path", error |-> e]

\* lines 634-638
StartLineResult ==
    [success |-> FALSE, error |-> "start_line is out of range"]

\* lines 655-659
EndLineResult ==
    [success |-> FALSE, error |-> "end_line is invalid"]

\* lines 684-689
DryRunResult(operation, diff) ==
    [success |-> TRUE, message |-> <<"[DRY RUN] Would", operation>>,
     diff |-> diff, dry_run |-> TRUE]

\* lines 695-700
CommitResult(operation, diff) ==
    [success |-> TRUE, message |-> <<"Successfully", operation, "ed">>,
     diff |-> diff, dry_run |-> FALSE]

\* line 634 with the upper limit one too small: appending is refused
StartOutOfRange_NoAppend(start_line, total_lines) ==
    start_line < 1 \/ start_line > total_lines

\* line 634
StartOutOfRange(start_line, total_lines) ==
    start_line < 1 \/ start_line > total_lines + 1

\* line 655 with the upper limit one too large
EndOutOfRange_PastEnd(start_line, end_line, total_lines) ==
    end_line < start_line \/ end_line > total_lines + 1

\* line 655
EndOutOfRange(start_line, end_line, total_lines) ==
    end_line < start_line \/ end_line > total_lines

\* line 682 never taken: a preview is written like a commit
IsDryRun_Ignored(req) == FALSE

\* line 682
IsDryRun(req) == req.dry_run

\* lines 647-661
Operation(req) == IF req.end_line = None THEN "insert" ELSE "replace"
StartIdx(req) == req.start_line - 1
EndIdx(req) == IF req.end_line = None THEN StartIdx(req) ELSE req.end_line[1]

\* the request passes both range checks against a file of total_lines lines
RangeOk(req, total_lines) ==
    /\ ~StartOutOfRange(req.start_line, total_lines)
    /\ req.end_line # None =>
          ~EndOutOfRange(req.start_line, req.end_line[1], total_lines)

\* lines 663-665
Modified(orig, req) ==
    Splice(orig, StartIdx(req), EndIdx(req), new_lines(req.new_content))

\* a return before any write: pc goes to "done" and storage is untouched
Return(res, orig, modified, diff) ==
    /\ pc' = "done"
    /\ result' = res
    /\ original_lines' = orig
    /\ modified_lines' = modified
    /\ diff_output' = diff
    /\ UNCHANGED <<disk, written>>

\* lines 682-692: a preview returns; a commit goes on to open the file
PreviewOrCommit(req, orig, modified, diff) ==
    IF IsDryRun(req)
    THEN Return(DryRunResult(Operation(req), diff), orig, modified, diff)
    ELSE /\ pc' = "opening"
         /\ original_lines' = orig
         /\ modified_lines' = modified
         /\ diff_output' = diff
         /\ UNCHANGED <<disk, written, result>>

\* lines 663-680: the spliced copy and its diff
Edit(req, orig, modified) ==
    PreviewOrCommit(req, orig, modified, DiffOutput(orig, modified))

\* lines 631-665: the range checks, then the splice
Validate(req, orig) ==
    IF StartOutOfRange(req.start_line, Len(orig))
    THEN Return(StartLineResult, orig, <<>>, <<>>)
    ELSE IF /\ req.end_line # None
            /\ EndOutOfRange(req.start_line, req.end_line[1], Len(orig))
    THEN Return(EndLineResult, orig, <<>>, <<>>)
    ELSE Edit(req, orig, Modified(orig, req))

\* lines 626-689: the call up to the decision to write; every path that
\* returns without opening the file for writing ends here
Call(req) ==
    /\ pc = "idle"
    /\ request' = req
    /\ disk0' = disk
    /\ UNCHANGED fileKind
    /\ IF ReadError(fileKind) # ""
       THEN Return(ExceptionResult(ReadError(fileKind)), <<>>, <<>>, <<>>)
       ELSE Validate(req, readlines(disk))

\* line 692: open(file_path, 'w') truncates the file
OpenForWrite ==
    /\ pc = "opening"
    /\ pc' = "writing"
    /\ disk' = <<>>
    /\ written' = 0
    /\ UNCHANGED <<fileKind, request, disk0, original_lines, modified_lines,
                   diff_output, result>>

\* line 692 raising: the file may be read but not written
OpenDenied ==
    /\ pc = "opening"
    /\ pc' = "done"
    /\ result' = ExceptionResult("PermissionError")
    /\ UNCHANGED <<disk, fileKind, request, disk0, original_lines, modified_lines,
                   diff_output, written>>

\* line 693: f.writelines hands the next line to the file
WriteLine ==
    /\ pc = "writing"
    /\ written < Len(modified_lines)
    /\ disk' = disk \o modified_lines[written + 1]
    /\ written' = written + 1
    /\ UNCHANGED <<fileKind, pc, request, disk0, original_lines, modified_lines,
                   diff_output, result>>

\* line 693 raising (no space left, an I/O error, a character UTF-8 cannot
\* encode): the with block closes the file, the except clause returns
WriteError ==
    /\ pc = "writing"
    /\ written < Len(modified_lines)
    /\ pc' = "done"
    /\ result' = ExceptionResult("OSError")
    /\ UNCHANGED <<disk, fileKind, request, disk0, original_lines, modified_lines,
                   diff_output, written>>

\* lines 692-700: the with block closes the file and the call returns
CloseAndReturn ==
    /\ pc = "writing"
    /\ written = Len(modified_lines)
    /\ pc' = "done"
    /\ result' = CommitResult(Operation(request), diff_output)
    /\ UNCHANGED <<disk, fileKind, request, disk0, original_lines, modified_lines,
                   diff_output, written>>

\* ------------------------------------------------------ str and os.path
\* index of the first c of s, 0 when there is none
FirstOf(s, c) ==
    IF \E i \in 1..Len(s) : s[i] = c
    THEN CHOOSE i \in 1..Len(s) : s[i] = c /\ \A j \in 1..(i-1) : s[j] # c
    ELSE 0

\* s.split(sep) for a one-character sep
RECURSIVE split_at(_, _)
fragment_at(s, sep, i) ==
    IF i = 0 THEN <<s>>
    ELSE <<SubSeq(s, 1, i - 1)>> \o split_at(SubSeq(s, i + 1, Len(s)), sep)

split_at(s, sep) == fragment_at(s, sep, FirstOf(s, sep))

\* seq[-1]
Last(seq) == seq[Len(seq)]

\* c in s, s.startswith(prefix), s.endswith(suffix), s.rstrip(c)
contains(s, c) == \E i \in 1..Len(s) : s[i] = c
startswith(s, prefix) ==
    Len(s) >= Len(prefix) /\ SubSeq(s, 1, Len(prefix)) = prefix
endswith(s, suffix) ==
    Len(s) >= Len(suffix) /\ SubSeq(s, Len(s) - Len(suffix) + 1, Len(s)) = suffix

RECURSIVE rstrip(_, _)
rstrip(s, c) ==
    IF s # <<>> /\ s[Len(s)] = c THEN rstrip(SubSeq(s, 1, Len(s) - 1), c) ELSE s

\* '/'.join(comps)
RECURSIVE join_sep(_)
join_sep(comps) ==
    IF comps = <<>> THEN <<>>
    ELSE IF Len(comps) = 1 THEN comps[1]
    ELSE Head(comps) \o <<"/">> \o join_sep(Tail(comps))

\* os.path.isabs, os.path.join of two paths
isabs(path) == startswith(path, <<"/">>)
join(a, b) ==
    IF isabs(b) THEN b
    ELSE IF a = <<>> \/ a[Len(a)] = "/" THEN a \o b
    ELSE a \o <<"/">> \o b

\* os.path.normpath of an absolute path with one leading slash: empty and
\* "." components go, ".." takes the component before it, or nothing at "/"
RECURSIVE norm_comps(_, _)
norm_comps(comps, new_comps) ==
    IF comps = <<>> THEN new_comps
    ELSE IF Head(comps) \in {<<>>, <<".">>}
    THEN norm_comps(Tail(comps), new_comps)
    ELSE IF Head(comps) # <<".", ".">>
    THEN norm_comps(Tail(comps), Append(new_comps, Head(comps)))
    ELSE IF new_comps # <<>>
    THEN norm_comps(Tail(comps), SubSeq(new_comps, 1, Len(new_comps) - 1))
    ELSE norm_comps(Tail(comps), new_comps)

normpath(path) == <<"/">> \o join_sep(norm_comps(split_at(path, "/"), <<>>))

\* os.path.abspath(os.path.join(current_dir, path))
abspath(current_dir, path) == normpath(join(current_dir, path))

\* --------------------------------------------------- the directory tree
\* line 18: WORKDIR, here "/w"
WORKDIR == <<"/", "w">>

Root == <<"/">>
\* a missing path: what a path walk ends on when a component does not exist
Missing == <<"missing">>

\* directories that are always there: the root, WORKDIR with a plain
\* subdirectory "s" and a subdirectory "k" the process may not enter, a
\* sibling of WORKDIR whose name starts with WORKDIR's, and a directory "o"
StaticDirs ==
    {Root, WORKDIR, WORKDIR \o <<"/", "s">>, WORKDIR \o <<"/", "k">>,
     <<"/", "w", "x">>, <<"/", "o">>}
NoEntry == {WORKDIR \o <<"/", "k">>}
\* directories clone_repo makes and removes
RepoDirs == {WORKDIR \o <<"/", "p">>, WORKDIR \o <<"/", "q">>}

\* the directory the kernel reaches from the directory at by walking comps
RECURSIVE walk(_, _, _)
walk(ds, at, comps) ==
    IF comps = <<>> THEN at
    ELSE IF Head(comps) \in {<<>>, <<".">>} THEN walk(ds, at, Tail(comps))
    ELSE IF Head(comps) = <<".", ".">>
    THEN walk(ds, normpath(join(at, <<".", ".">>)), Tail(comps))
    ELSE IF join(at, Head(comps)) \in ds
    THEN walk(ds, join(at, Head(comps)), Tail(comps))
    ELSE Missing

\* the directory an absolute path names, Missing when it names none
resolve(ds, path) == walk(ds, Root, split_at(path, "/"))

\* os.path.isdir
isdir(ds, path) == resolve(ds, path) # Missing

\* a return of cd or clone_repo: the dict, and where the process and the
\* tree are left
FsReturn(res, new_cwd, new_dirs) ==
    /\ fsResult' = res
    /\ cwd' = new_cwd
    /\ dirs' = new_dirs

NoCall == [pending |-> TRUE]

\* --------------------------------------------------------------------- cd
\* the arguments tried: absolute and relative, inside and outside WORKDIR,
\* with "..", existing and not
Directories ==
    {<<"/">>, <<"/", "w">>, <<"/", "w", "/", "s">>, <<"/", "w", "/", "p">>,
     <<"/", "w", "/", "k">>, <<"/", "w", "/", "z">>, <<"/", "w", "x">>,
     <<"/", "o">>, <<"/", "w", "/", ".", ".", "/", "o">>,
     <<".">>, <<"s">>, <<"p">>, <<"q">>, <<"z">>, <<".", ".">>,
     <<".", ".", "/", "w", "x">>, <<".", ".", "/", "o">>,
     <<".", ".", "/", ".", ".">>, <<".", ".", "/", "s">>}

\* lines 94-99 and 107-112
CdUnauthorized(current_dir, absolute) ==
    [success |-> FALSE,
     message |-> IF absolute
                 THEN "Please provide either a relative path or a path in WORKDIR"
                 ELSE "The resulting path would be outside WORKDIR",
     current_directory |-> current_dir, error |-> "Unauthorized Path"]

\* lines 118-123
CdNotFound(current_dir) ==
    [success |-> FALSE, message |-> "Directory does not exist",
     current_directory |-> current_dir, error |-> "FileNotFoundError"]

\* lines 128-133
CdDone(target_path) ==
    [success |-> TRUE, message |-> "Successfully changed to directory",
     current_directory |-> target_path]

\* lines 136-147
CdException(current_dir, e) ==
    [success |-> FALSE, message |-> "Failed to change to directory",
     current_directory |-> current_dir, error |-> e]

\* lines 93 and 106: target_path.startswith(WORKDIR)
WithinWorkdir(target_path) == startswith(target_path, WORKDIR)

\* lines 90-91 and 104
TargetPath(current_dir, directory) ==
    IF isabs(directory) THEN directory ELSE abspath(current_dir, directory)

\* lines 93-147: the path tests, os.chdir, and the except clause for an
\* os.chdir that raises
CdTo(directory, target_path) ==
    IF ~WithinWorkdir(target_path)
    THEN FsReturn(CdUnauthorized(cwd, isabs(directory)), cwd, dirs)
    ELSE IF ~isdir(dirs, target_path)
    THEN FsReturn(CdNotFound(cwd), cwd, dirs)
    ELSE IF resolve(dirs, target_path) \in NoEntry
    THEN FsReturn(CdException(cwd, "PermissionError"), cwd, dirs)
    ELSE FsReturn(CdDone(target_path), resolve(dirs, target_path), dirs)

\* lines 69-147
cd(directory) ==
    /\ fsCall' = [op |-> "cd", directory |-> directory]
    /\ cwd0' = cwd
    /\ dirs0' = dirs
    /\ CdTo(directory, TargetPath(cwd, directory))
    /\ UNCHANGED <<fileVars, seqVars>>

\* ------------------------------------------------------------- clone_repo
\* the urls tried: "http://h/p.git", "http://h/q", "http://h/q/",
\* "g@h:u/p.git", "g@h:q", "g@h:u/", "http://h/.git", "http://h/..",
\* "http://h/." and ""
Http == <<"h", "t", "t", "p">>
Host == Http \o <<":", "/", "/", "h", "/">>
DotGit == <<".", "g", "i", "t">>
Urls ==
    {Host \o <<"p">> \o DotGit, Host \o <<"q">>, Host \o <<"q", "/">>,
     <<"g", "@", "h", ":", "u", "/", "p">> \o DotGit, <<"g", "@", "h", ":", "q">>,
     <<"g", "@", "h", ":", "u", "/">>,
     Host \o DotGit, Host \o <<".", ".">>, Host \o <<".">>, <<>>}

\* what the call meets: shutil.rmtree removes the tree or raises; git clone
\* makes the directory, exits non-zero, or cannot be run
Envs == [rmtree : {"removed", "raised"}, git : {"cloned", "failed", "raised"}]

\* lines 387-392
repo_tail(url) ==
    IF contains(url, ":") /\ contains(url, "@") /\ ~startswith(url, Http)
    THEN Last(split_at(Last(split_at(url, ":")), "/"))
    ELSE Last(split_at(rstrip(url, "/"), "/"))

\* line 393
strip_git(tail) ==
    IF endswith(tail, DotGit) THEN SubSeq(tail, 1, Len(tail) - 4) ELSE tail

repo_name(url) == strip_git(repo_tail(url))

\* line 396
InvalidName(name) ==
    name = <<>> \/ name \in {<<".">>, <<".", ".">>} \/ contains(name, "/")

\* line 399
CloneInvalid(current_dir) ==
    [success |-> FALSE, message |-> "Invalid repository name derived from URL",
     current_directory |-> current_dir]

\* lines 408-410
CloneSwitched(current_dir) ==
    [success |-> TRUE,
     message |-> "Repository already exists. Switched to existing directory.",
     current_directory |-> current_dir]

\* lines 416-419
CloneRemoveFailed(current_dir) ==
    [success |-> FALSE, message |-> "Failed to remove target",
     current_directory |-> current_dir, stderr |-> "e"]

\* lines 429-439
CloneFailed(current_dir) ==
    [success |-> FALSE, message |-> "git clone failed with exit code",
     current_directory |-> current_dir, stdout |-> "r.stdout",
     stderr |-> "r.stderr"]

\* lines 443-451
Cloned(current_dir, reset) ==
    [success |-> TRUE,
     message |-> IF reset THEN "Existing directory was replaced. Cloned url into target."
                 ELSE "Cloned url into target.",
     current_directory |-> current_dir, stdout |-> "r.stdout",
     stderr |-> "r.stderr"]

\* lines 453-456
CloneException(current_dir) ==
    [success |-> FALSE, message |-> "Unexpected error during clone",
     current_directory |-> current_dir, stderr |-> "e"]

\* line 402 left out: the call goes on from the directory it was started in
StartDir_Prior(prior) == prior

\* line 402: os.chdir(WORKDIR)
StartDir(prior) == WORKDIR

\* line 415: shutil.rmtree(target)
rmtree(ds, target) ==
    {d \in ds : d # target /\ ~startswith(d, target \o <<"/">>)}

\* lines 422-451: git clone into what is left in ds, then os.chdir(target)
GitClone(target, reset, git, ds) ==
    IF git = "failed"
    THEN FsReturn(CloneFailed(StartDir(cwd)), StartDir(cwd), ds)
    ELSE IF git = "raised"
    THEN FsReturn(CloneException(StartDir(cwd)), StartDir(cwd), ds)
    ELSE FsReturn(Cloned(target, reset), target, ds \cup {target})

\* lines 402-451
CloneInto(target, reset, env) ==
    IF isdir(dirs, target) /\ ~reset
    THEN FsReturn(CloneSwitched(target), target, dirs)
    ELSE IF isdir(dirs, target) /\ reset
    THEN IF env.rmtree = "raised"
         THEN FsReturn(CloneRemoveFailed(StartDir(cwd)), StartDir(cwd), dirs)
         ELSE GitClone(target, reset, env.git, rmtree(dirs, target))
    ELSE GitClone(target, reset, env.git, dirs)

\* lines 368-456
clone_repo(url, reset, env) ==
    /\ fsCall' = [op |-> "clone_repo", url |-> url, reset |-> reset, env |-> env]
    /\ cwd0' = cwd
    /\ dirs0' = dirs
    /\ IF InvalidName(repo_name(url))
       THEN FsReturn(CloneInvalid(cwd), cwd, dirs)
       ELSE CloneInto(join(WORKDIR, repo_name(url)), reset, env)
    /\ UNCHANGED <<fileVars, seqVars>>

\* ------------------------------------------------------ specifications
\* the variables of a part of the model that a specification leaves alone
FileIdle ==
    /\ disk = <<>>
    /\ fileKind = "missing"
    /\ pc = "idle"
    /\ request = NoRequest
    /\ disk0 = <<>>
    /\ original_lines = <<>>
    /\ modified_lines = <<>>
    /\ diff_output = <<>>
    /\ written = 0
    /\ result = NoResult

DirIdle ==
    /\ cwd = WORKDIR
    /\ dirs = StaticDirs
    /\ fsCall = NoCall
    /\ fsResult = NoResult
    /\ cwd0 = WORKDIR
    /\ dirs0 = StaticDirs

SeqIdle ==
    /\ expected = <<>>
    /\ calls = 0

Init ==
    /\ \E f \in InitialFiles : fileKind = f[1] /\ disk = f[2]
    /\ pc = "idle"
    /\ request = NoRequest
    /\ disk0 = disk
    /\ original_lines = <<>>
    /\ modified_lines = <<>>
    /\ diff_output = <<>>
    /\ written = 0
    /\ result = NoResult
    /\ DirIdle
    /\ SeqIdle

\* one replace_lines call
Next ==
    \/ (\E req \in Requests : Call(req)) /\ UNCHANGED <<dirVars, seqVars>>
    \/ OpenForWrite /\ UNCHANGED <<dirVars, seqVars>>
    \/ OpenDenied /\ UNCHANGED <<dirVars, seqVars>>
    \/ WriteLine /\ UNCHANGED <<dirVars, seqVars>>
    \/ WriteError /\ UNCHANGED <<dirVars, seqVars>>
    \/ CloseAndReturn /\ UNCHANGED <<dirVars, seqVars>>

Spec == Init /\ [][Next]_vars

\* line 716: the server starts in WORKDIR; the repositories p and q may be
\* there already
InitCwd ==
    /\ FileIdle
    /\ SeqIdle
    /\ cwd = WORKDIR
    /\ \E repos \in SUBSET RepoDirs : dirs = StaticDirs \cup repos
    /\ fsCall = NoCall
    /\ fsResult = NoResult
    /\ cwd0 = cwd
    /\ dirs0 = dirs

\* a sequence of cd and clone_repo calls
NextCwd ==
    \/ \E directory \in Directories : cd(directory)
    \/ \E url \in Urls, reset \in BOOLEAN, env \in Envs : clone_repo(url, reset, env)

SpecCwd == InitCwd /\ [][NextCwd]_vars

\* ------------------------------------------- a sequence of replace_lines
SeqTextFiles ==
    {Join(terminate(ls, last_too)) :
        ls \in SeqsUpTo(LineBodies, MaxSeqLines), last_too \in BOOLEAN}

SeqInitialFiles ==
    {<<"text", d>> : d \in SeqTextFiles}
    \cup {<<"missing", <<>>>>, <<"noperm", OpaqueContent>>, <<"nonutf8", OpaqueContent>>}

SeqRequests ==
    [start_line : 0..(MaxSeqLines + 2),
     new_content : SeqsUpTo(NewChars, MaxSeqNewLen),
     end_line : {None} \cup {<<n>> : n \in 1..(MaxSeqLines + 1)},
     dry_run : BOOLEAN]

\* what the calls so far are specified to have stored: a call that returns
\* success without dry_run stores the lines of the text it found with its
\* new lines spliced in, every other call contributes nothing
Track ==
    expected' =
        IF pc' = "done" /\ result'.success /\ ~result'.dry_run
        THEN Join(Modified(readlines(disk0'), request'))
        ELSE expected

\* lines 626-629: the next call starts, on the file as it is now
NextCall(req) ==
    /\ calls < MaxCalls
    /\ calls' = calls + 1
    /\ Call(req)
    /\ Track

\* a step of the call in progress
Step(A) == A /\ Track /\ UNCHANGED calls

\* the call has returned: its arguments, its line buffers and its result are
\* gone, the file stays
Discard ==
    /\ pc = "done"
    /\ pc' = "idle"
    /\ request' = NoRequest
    /\ disk0' = disk
    /\ original_lines' = <<>>
    /\ modified_lines' = <<>>
    /\ diff_output' = <<>>
    /\ written' = 0
    /\ result' = NoResult
    /\ UNCHANGED <<disk, fileKind, expected, calls>>

InitSeq ==
    /\ \E f \in SeqInitialFiles : fileKind = f[1] /\ disk = f[2]
    /\ pc = "idle"
    /\ request = NoRequest
    /\ disk0 = disk
    /\ original_lines = <<>>
    /\ modified_lines = <<>>
    /\ diff_output = <<>>
    /\ written = 0
    /\ result = NoResult
    /\ expected = disk
    /\ calls = 0
    /\ DirIdle

NextSeq ==
    \/ (\E req \in SeqRequests : NextCall(req)) /\ UNCHANGED dirVars
    \/ Step(OpenForWrite) /\ UNCHANGED dirVars
    \/ Step(OpenDenied) /\ UNCHANGED dirVars
    \/ Step(WriteLine) /\ UNCHANGED dirVars
    \/ Step(WriteError) /\ UNCHANGED dirVars
    \/ Step(CloseAndReturn) /\ UNCHANGED dirVars
    \/ Discard /\ UNCHANGED dirVars

SpecSeq == InitSeq /\ [][NextSeq]_vars

TypeOK ==
    /\ pc \in {"idle", "opening", "writing", "done"}
    /\ fileKind \in FileKinds
    /\ written \in 0..Len(modified_lines)

\* ------------------------------------------------------------ properties
TotalLines == Len(readlines(disk0))
LinesIn(text) == Len(readlines(text))
IsInsert == request.end_line = None
Returned == pc = "done"
Succeeded == Returned /\ result.success
Committed == Succeeded /\ ~result.dry_run
Failed == Returned /\ ~result.success
\* the call failed while opening the file for writing or while writing it
WriteFailed ==
    Returned /\ result \in {ExceptionResult("PermissionError"), ExceptionResult("OSError")}
ValidInsert == 1 <= request.start_line /\ request.start_line <= TotalLines + 1
ValidReplace ==
    /\ 1 <= request.start_line
    /\ request.start_line <= request.end_line[1]
    /\ request.end_line[1] <= TotalLines
\* the stored text an edit is specified to produce: the original lines
\* outside the range around new_content itself
SpecifiedContent ==
    Join(SubSeq(original_lines, 1, StartIdx(request)))
    \o request.new_content
    \o Join(SubSeq(original_lines, EndIdx(request) + 1, Len(original_lines)))

\* C1: after a committed call the stored text is the original lines outside
\* the range with new_content, exactly as given, in place of the range: the
\* lines made from new_content concatenate to new_content and add no line.
C1_SplicedLinesEqualNewContent ==
    Committed => disk = SpecifiedContent

\* C2: after a committed replacement the file read back has
\* totalLines - (end_line - start_line + 1) + linesIn(new_content) lines.
C2_ReplaceLineCount ==
    (Committed /\ ~IsInsert) =>
        LinesIn(disk) = TotalLines - (request.end_line[1] - request.start_line + 1)
                        + LinesIn(request.new_content)

\* C3: after a committed insertion the file read back has
\* totalLines + linesIn(new_content) lines.
C3_InsertLineCount ==
    (Committed /\ IsInsert) =>
        LinesIn(disk) = TotalLines + LinesIn(request.new_content)

\* C4 as stated: a dry-run call never changes the stored text and, for every
\* request valid or invalid, its result carries dry_run = True and a diff.
C4_DryRunAlwaysCarriesDiff ==
    (Returned /\ request.dry_run) =>
        /\ disk = disk0
        /\ "dry_run" \in DOMAIN result /\ result.dry_run
        /\ "diff" \in DOMAIN result

\* C4 amended: at no point of a dry-run call does the stored text differ from
\* the text before the call, whatever the request; and when the file is
\* readable text and the request is in range, the result is a success that
\* carries dry_run = True and the diff between the original lines and the
\* spliced lines.
C4_DryRunLeavesStorage ==
    (pc # "idle" /\ request.dry_run) =>
        /\ disk = disk0
        /\ pc = "done"
        /\ (fileKind = "text" /\ RangeOk(request, TotalLines)) =>
              /\ result.success
              /\ result.dry_run
              /\ result.diff = DiffOutput(readlines(disk0),
                                          Modified(readlines(disk0), request))

\* a dry run of an edit that would change a non-empty file
C4_Witness ==
    /\ Returned /\ request.dry_run /\ result.success
    /\ disk0 # <<>>
    /\ Join(modified_lines) # disk0
    /\ result.diff # NoChanges

\* C5: an insertion on a readable file whose write does not fail succeeds
\* exactly when 1 <= start_line <= totalLines + 1; a start_line outside that
\* range returns a failure and leaves the stored text unchanged.
C5_InsertRange ==
    (Returned /\ IsInsert /\ fileKind = "text") =>
        /\ ~WriteFailed => (result.success <=> ValidInsert)
        /\ ~ValidInsert => (~result.success /\ disk = disk0)

\* a committed append at start_line = totalLines + 1 on a non-empty file
C5_Witness ==
    /\ Committed /\ IsInsert
    /\ TotalLines >= 1
    /\ request.start_line = TotalLines + 1
    /\ disk # disk0

\* C6: a replacement on a readable file whose write does not fail succeeds
\* exactly when 1 <= start_line <= end_line <= totalLines; every other
\* replacement returns a failure and leaves the stored text unchanged.
C6_ReplaceRange ==
    (Returned /\ ~IsInsert /\ fileKind = "text") =>
        /\ ~WriteFailed => (result.success <=> ValidReplace)
        /\ ~ValidReplace => (~result.success /\ disk = disk0)

\* a replacement refused only because end_line = totalLines + 1
C6_Witness ==
    /\ Failed /\ ~IsInsert
    /\ TotalLines >= 1
    /\ request.start_line \in 1..TotalLines
    /\ request.end_line[1] = TotalLines + 1
    /\ result = EndLineResult

\* C7: at every point of a call that is not a dry run the stored text is the
\* original text or the complete modified buffer, and a call that returns
\* success = False leaves the stored text as it was before the call.
C7_NoPartialWrite ==
    /\ (pc # "idle" /\ ~request.dry_run) =>
          (disk = disk0 \/ disk = Join(modified_lines))
    /\ Failed => disk = disk0

\* C8: every failure is returned as a result with success = False and both a
\* message and an error field.
C8_FailureHasMessageAndError ==
    Failed => {"message", "error"} \subseteq DOMAIN result

\* C9: the diff field is "No changes detected" exactly when the text that is
\* or would be written equals the original text; otherwise it is a non-empty
\* hunk body that starts at the hunk header, the two file headers removed.
C9_NoChangesIffSameContent ==
    Succeeded =>
        IF Join(modified_lines) = disk0
        THEN result.diff = NoChanges
        ELSE /\ result.diff # NoChanges
             /\ Len(result.diff) >= 2
             /\ SubSeq(result.diff, 1, 2) = <<"@", "@">>

\* C10: on a file that ends with a terminator, a committed insertion at
\* start_line = totalLines + 1 leaves the original text followed by
\* new_content.
C10_AppendIsConcatenation ==
    (Committed /\ IsInsert /\ EndsWithNL(disk0)
        /\ request.start_line = TotalLines + 1) =>
        disk = disk0 \o request.new_content

\* ---------------------------------------------- applying a unified diff
\* What a unified-diff applier (patch, git apply) does with the text of the
\* diff field: the text is cut into lines at "\n"; a line "@@ -s[,c] ..."
\* starts a hunk at line s of the original; " " and "-" lines must match the
\* next original line, "+" lines are added; a line of the diff stands for a
\* line of the file that ends with "\n".  A blank line is an empty context
\* line.  The diff text is taken as it is returned, or with a final "\n".
Rejected == <<"rejected">>
IsDigit(c) == \E d \in 1..10 : Digits[d] = c
DigitVal(c) == (CHOOSE d \in 1..10 : Digits[d] = c) - 1

\* the decimal number that starts at s[i], continued from acc
RECURSIVE ParseNat(_, _, _)
ParseNat(s, i, acc) ==
    IF i > Len(s) \/ ~IsDigit(s[i]) THEN acc
    ELSE ParseNat(s, i + 1, acc * 10 + DigitVal(s[i]))

\* index of the first character at or after s[i] that is not a digit
RECURSIVE AfterNat(_, _)
AfterNat(s, i) ==
    IF i > Len(s) \/ ~IsDigit(s[i]) THEN i ELSE AfterNat(s, i + 1)

IsHunkHeader(l) == Len(l) >= 4 /\ SubSeq(l, 1, 4) = <<"@", "@", " ", "-">>
HunkOldStart(l) == ParseNat(l, 5, 0)
HunkOldCount(l) ==
    IF AfterNat(l, 5) <= Len(l) /\ l[AfterNat(l, 5)] = ","
    THEN ParseNat(l, AfterNat(l, 5) + 1, 0) ELSE 1
\* number of original lines that precede the hunk
HunkSkip(l) == IF HunkOldCount(l) = 0 THEN HunkOldStart(l) ELSE HunkOldStart(l) - 1

RECURSIVE ApplyLines(_, _, _, _)
\* one line of a hunk: tag and the text after it
ApplyLine(orig, tag, body, rest, pos, out) ==
    IF tag = "+" THEN ApplyLines(orig, rest, pos, out \o body \o <<NL>>)
    ELSE IF tag \notin {" ", "-"} THEN Rejected
    ELSE IF pos >= Len(orig) \/ orig[pos + 1] # body \o <<NL>> THEN Rejected
    ELSE ApplyLines(orig, rest, pos + 1,
                    IF tag = " " THEN out \o orig[pos + 1] ELSE out)

\* the lines dl of the diff applied to orig, pos lines of which are consumed
ApplyLines(orig, dl, pos, out) ==
    IF dl = <<>> THEN out \o Join(SubSeq(orig, pos + 1, Len(orig)))
    ELSE IF IsHunkHeader(Head(dl))
    THEN IF HunkSkip(Head(dl)) < pos \/ HunkSkip(Head(dl)) > Len(orig)
         THEN Rejected
         ELSE ApplyLines(orig, Tail(dl), HunkSkip(Head(dl)),
                         out \o Join(SubSeq(orig, pos + 1, HunkSkip(Head(dl)))))
    ELSE IF Head(dl) = <<>> THEN ApplyLine(orig, " ", <<>>, Tail(dl), pos, out)
    ELSE ApplyLine(orig, Head(dl)[1], Tail(Head(dl)), Tail(dl), pos, out)

\* the lines of the diff text, without their terminators
WithoutNL(l) == IF EndsWithNL(l) THEN SubSeq(l, 1, Len(l) - 1) ELSE l
DiffLines(diff) == [i \in 1..Len(readlines(diff)) |-> WithoutNL(readlines(diff)[i])]

\* the text obtained by applying the diff field to the text content
ApplyDiff(content, diff) ==
    IF diff = NoChanges THEN content
    ELSE ApplyLines(readlines(content), DiffLines(diff), 0, <<>>)

\* C11: for every valid edit, applying the unified diff returned by
\* replace_lines to the original content reproduces the modified content.
C11_DiffRoundTrip ==
    Succeeded => ApplyDiff(disk0, result.diff) = Join(modified_lines)

\* the lines of orig before index start_idx and from index end_idx on are
\* whole lines of back, at the head and at the tail of it
FrameKept(orig, back, start_idx, end_idx) ==
    /\ Len(back) >= start_idx + (Len(orig) - end_idx)
    /\ SubSeq(back, 1, start_idx) = SubSeq(orig, 1, start_idx)
    /\ SubSeq(back, Len(back) - (Len(orig) - end_idx) + 1, Len(back))
           = SubSeq(orig, end_idx + 1, Len(orig))

\* C12: when the file is read back after a committed edit, every original
\* line before start_line and every original line after the range is there
\* as a whole line, unchanged and in the original order.
C12_OnlyRangeChanges ==
    Committed =>
        FrameKept(readlines(disk0), readlines(disk),
                  StartIdx(request), EndIdx(request))

\* ------------------------------------------- properties of cd, clone_repo
\* path is WORKDIR or a directory beneath it
Inside(path) == path = WORKDIR \/ startswith(path, WORKDIR \o <<"/">>)
CdCalled == "op" \in DOMAIN fsCall /\ fsCall.op = "cd"
CloneCalled == "op" \in DOMAIN fsCall /\ fsCall.op = "clone_repo"
\* the directory the argument of the last cd named when the call started
CdNamed == resolve(dirs0, join(cwd0, fsCall.directory))
CdWouldLeave == CdNamed # Missing /\ ~Inside(CdNamed)

\* C13: the working directory is always WORKDIR or a directory beneath it,
\* and every cd whose argument names a directory outside WORKDIR returns
\* success = False with error "Unauthorized Path" and leaves the working
\* directory as it was.
C13_CdStaysInWorkdir ==
    /\ Inside(cwd)
    /\ (CdCalled /\ CdWouldLeave) =>
          /\ ~fsResult.success
          /\ fsResult.error = "Unauthorized Path"
          /\ cwd = cwd0

\* the last clone_repo call: its target, and what it met
CloneTarget == join(WORKDIR, repo_name(fsCall.url))
CloneNameInvalid == InvalidName(repo_name(fsCall.url))
CloneRemoveFails ==
    /\ ~CloneNameInvalid
    /\ CloneTarget \in dirs0 /\ fsCall.reset
    /\ fsCall.env.rmtree = "raised"
CloneGitFails ==
    /\ ~CloneNameInvalid /\ ~CloneRemoveFails
    /\ CloneTarget \notin dirs0 \/ fsCall.reset
    /\ fsCall.env.git # "cloned"

\* C15: after a clone_repo call from any working directory, the returned
\* current_directory is the working directory; with an invalid repository
\* name the call fails and the working directory is unchanged; when the
\* existing directory cannot be removed or git clone fails the call fails
\* and the working directory is WORKDIR; in every other case the call
\* succeeds and the working directory is WORKDIR/<repo_name>, which exists;
\* and a directory that existed is gone only when reset = True.
C15_CloneFixesCwd ==
    CloneCalled =>
        /\ fsResult.current_directory = cwd
        /\ CloneNameInvalid =>
              ~fsResult.success /\ cwd = cwd0 /\ dirs = dirs0
        /\ (CloneRemoveFails \/ CloneGitFails) =>
              ~fsResult.success /\ cwd = WORKDIR
        /\ (~CloneNameInvalid /\ ~CloneRemoveFails /\ ~CloneGitFails) =>
              fsResult.success
        /\ fsResult.success =>
              cwd = CloneTarget /\ cwd \in RepoDirs /\ cwd \in dirs
        /\ ~(dirs0 \subseteq dirs) =>
              fsCall.reset /\ dirs0 \ dirs = {CloneTarget}

\* a failed re-clone, started outside WORKDIR, of a repository that existed:
\* the directory is gone and the process is back in WORKDIR
C15_Witness ==
    /\ CloneCalled /\ fsCall.reset
    /\ ~Inside(cwd0)
    /\ CloneTarget \in dirs0 /\ CloneTarget \notin dirs
    /\ ~fsResult.success
    /\ cwd = WORKDIR

\* C14: whenever no call is in progress, the stored text is what the calls
\* so far that returned success without dry_run produce when applied in
\* call order, each to the lines of the text stored when it was made; failed
\* calls and dry runs contribute nothing.
C14_StoredIsCommittedEdits ==
    pc \in {"idle", "done"} => disk = expected

====
